---- MODULE Spec2Model ----
(***************************************************************************)
(* nu_plugin_kdl: conversion between KDL documents and Nushell values.     *)
(*                                                                         *)
(*   from.rs  parse_document / parse_node / parse_entry  (KDL -> Value)    *)
(*   to.rs    build_document / build_node / build_entry  (Value -> KDL)    *)
(*   lib.rs   KDL::from (dialect selection) and KDL::to                    *)
(*                                                                         *)
(* Source extents (spans) carry no behaviour and are left out: Value       *)
(* equality in nu_protocol ignores them.                                   *)
(***************************************************************************)
EXTENDS Integers, Sequences, FiniteSets, TLC

VARIABLES
    cmd,        \* what the run exercises: "decode", "encode" or "from kdl"
    pc,         \* position in the pipeline of one conversion
    document,   \* the KdlDocument handed to parse_document
    value,      \* the nu Value: parse_document's result, or the input of `to kdl`
    built,      \* what build_document did: Ok(document), Err(message) or a panic
    output,     \* what KDL::to returned to the host
    redecoded,  \* parse_document applied to the document build_document returned
    text,       \* input of `from kdl`: what each dialect's parser makes of it
    runs        \* per flag combination of `from kdl`: NotRun or the call's outcome

vars == <<cmd, pc, document, value, built, output, redecoded, text, runs>>

(***************************************************************************)
(* Bounds of the model.                                                    *)
(***************************************************************************)
\* entries per node in the enumerated documents, elements per list in the values
MaxEntries == 2
\* nodes per document in the enumerated documents, keys per record in the values
MaxNodes == 3
\* nesting depth of children blocks in the enumerated documents
MaxDepth == 1
\* width of a nu Int (i64), scaled down; a KDL integer (i128) has twice the width
IntBits == 3

I64Min == 0 - 2 ^ (IntBits - 1)
I64Max == 2 ^ (IntBits - 1) - 1
I128Min == 0 - 2 ^ (2 * IntBits - 1)
I128Max == 2 ^ (2 * IntBits - 1) - 1

(***************************************************************************)
(* Option<T> is a sequence of length 0 (None) or 1 (Some).                 *)
(***************************************************************************)
None == <<>>
Some(x) == <<x>>
IsSome(o) == Len(o) = 1

(***************************************************************************)
(* nu_protocol::Value, the variants the plugin handles, without spans.     *)
(* A float is held as the text Rust's {:?} prints for it ("1.5", "inf").   *)
(***************************************************************************)
VNothing == [t |-> "Nothing"]
VBool(b) == [t |-> "Bool", b |-> b]
VInt(i) == [t |-> "Int", i |-> i]
VFloat(f) == [t |-> "Float", f |-> f]
VString(s) == [t |-> "String", s |-> s]
VList(vals) == [t |-> "List", vals |-> vals]
VRecord(cols) == [t |-> "Record", cols |-> cols]

\* nu_protocol::Record: an ordered sequence of (column, value) pairs
RecordNew == <<>>
Col(k, v) == [k |-> k, v |-> v]
Keys(rec) == [i \in 1..Len(rec) |-> rec[i].k]

\* a Record::insert that moves an overwritten column to the end
RecordInsertMovesToEnd(rec, k, v) ==
    Append(SelectSeq(rec, LAMBDA c : c.k # k), Col(k, v))

\* a Record::insert that puts a new column first
RecordInsertInFront(rec, k, v) ==
    IF \E i \in 1..Len(rec) : rec[i].k = k
    THEN [i \in 1..Len(rec) |-> IF rec[i].k = k THEN Col(k, v) ELSE rec[i]]
    ELSE <<Col(k, v)>> \o rec

\* Record::insert: replaces the value of an existing column in place, else pushes
RecordInsert(rec, k, v) ==
    IF \E i \in 1..Len(rec) : rec[i].k = k
    THEN [i \in 1..Len(rec) |-> IF rec[i].k = k THEN Col(k, v) ELSE rec[i]]
    ELSE Append(rec, Col(k, v))

(***************************************************************************)
(* kdl::KdlValue, KdlIdentifier, KdlEntry, KdlNode, KdlDocument.           *)
(***************************************************************************)
KString(s) == [ty |-> "String", s |-> s]
KInteger(i) == [ty |-> "Integer", i |-> i]
KFloat(f) == [ty |-> "Float", f |-> f]
KBool(b) == [ty |-> "Bool", b |-> b]
KNull == [ty |-> "Null"]

\* KdlIdentifier: the name and the text it was written as (repr), if any
Ident(val, repr) == [value |-> val, repr |-> repr]
\* KdlEntry: name is None for an argument, Some(identifier) for a property
Entry(name, val) == [name |-> name, value |-> val]
\* KdlNode: children is None or Some(document); a document is a sequence of nodes
Node(name, entries, children) ==
    [name |-> name, entries |-> entries, children |-> children]

(***************************************************************************)
(* Text forms.  parse_entry renders a numeric KdlValue with to_string and  *)
(* parses the text back with str::parse::<i64> and str::parse::<f64>.      *)
(***************************************************************************)
Digit == <<"0", "1", "2", "3", "4", "5", "6", "7", "8", "9">>

RECURSIVE NatToString(_)
NatToString(n) ==
    IF n < 10 THEN Digit[n + 1]
    ELSE NatToString(n \div 10) \o Digit[(n % 10) + 1]

\* the decimal text of an integer ({:?} of an i128, to_string of an i64)
IntToString(n) == IF n < 0 THEN "-" \o NatToString(0 - n) ELSE NatToString(n)

\* the f64 nearest to an integer, as the text {:?} prints for it
F64FromInt(n) == IntToString(n) \o ".0"

\* the finite floats of the model, and the three that are not finite
FiniteFloats == {"1.5", "-0.0"} \cup {F64FromInt(n) : n \in I128Min..I128Max}
NonFiniteFloats == {"inf", "-inf", "NaN"}

\* Display of KdlValue for the two numeric variants
KdlValueToString(val) ==
    IF val.ty = "Integer" THEN IntToString(val.i)
    ELSE IF val.f = "inf" THEN "#inf"
    ELSE IF val.f = "-inf" THEN "#-inf"
    ELSE IF val.f = "NaN" THEN "#nan"
    ELSE val.f

\* s.parse::<i64>(): Some(i) when s is the decimal text of an i64
ParseI64(s) ==
    IF \E i \in I64Min..I64Max : IntToString(i) = s
    THEN Some(CHOOSE i \in I64Min..I64Max : IntToString(i) = s)
    ELSE None

\* s.parse::<f64>(): decimal integers of any size and float texts parse
ParseF64(s) ==
    IF \E i \in I128Min..I128Max : IntToString(i) = s
    THEN Some(F64FromInt(CHOOSE i \in I128Min..I128Max : IntToString(i) = s))
    ELSE IF s \in FiniteFloats \cup NonFiniteFloats THEN Some(s)
    ELSE None

\* Display of KdlIdentifier: the text it was written as, else its value
IdentToString(id) == IF IsSome(id.repr) THEN id.repr[1] ELSE id.value

(***************************************************************************)
(* from.rs: the decoder.                                                   *)
(***************************************************************************)
parse_entry(entry) ==
    LET val == entry.value
        v == IF val.ty = "String" THEN VString(val.s)
             ELSE IF val.ty = "Bool" THEN VBool(val.b)
             ELSE IF val.ty = "Null" THEN VNothing
             ELSE LET s == KdlValueToString(val)
                  IN  IF IsSome(ParseI64(s)) THEN VInt(ParseI64(s)[1])
                      ELSE IF IsSome(ParseF64(s)) THEN VFloat(ParseF64(s)[1])
                      ELSE VString(s)
    IN  IF IsSome(entry.name)
        THEN VRecord(RecordInsert(RecordNew, entry.name[1].value, v))
        ELSE v

RECURSIVE parse_document(_), parse_node(_), InsertNodes(_, _, _)

\* node.entries().iter().map(parse_entry).collect()
ParseEntries(node) == [i \in 1..Len(node.entries) |-> parse_entry(node.entries[i])]

\* a parse_node that never unwraps a single entry
parse_node_keeps_list(node) ==
    LET entries == ParseEntries(node)
    IN  IF IsSome(node.children)
        THEN LET children == parse_document(node.children[1])
             IN  IF Len(entries) = 0 THEN children
                 ELSE VRecord(RecordInsert(
                          RecordInsert(RecordNew, "entries", VList(entries)),
                          "children", children))
        ELSE IF Len(entries) = 0 THEN VNothing
             ELSE VList(entries)

parse_node(node) ==
    LET entries == ParseEntries(node)
    IN  IF IsSome(node.children)
        THEN LET children == parse_document(node.children[1])
             IN  IF Len(entries) = 0 THEN children
                 ELSE LET e == IF Len(entries) = 1 THEN entries[1] ELSE VList(entries)
                      IN  VRecord(RecordInsert(
                              RecordInsert(RecordNew, "entries", e),
                              "children", children))
        ELSE IF Len(entries) = 0 THEN VNothing
             ELSE IF Len(entries) = 1 THEN entries[1]
             ELSE VList(entries)

\* the loop of parse_document from node i on
InsertNodes(nodes, i, record) ==
    IF i > Len(nodes) THEN record
    ELSE InsertNodes(nodes, i + 1,
             RecordInsert(record, IdentToString(nodes[i].name), parse_node(nodes[i])))

parse_document(doc) == VRecord(InsertNodes(doc, 1, RecordNew))

(***************************************************************************)
(* to.rs: the encoder.  A call returns Ok(x), returns Err(message), or     *)
(* panics (todo!() and unwrap() on an Err), which ends the plugin process. *)
(***************************************************************************)
Ok(x) == [kind |-> "Ok", ok |-> x]
Err(msg) == [kind |-> "Err", msg |-> msg]
Panic(msg) == [kind |-> "Panic", panic |-> msg]

Scalars == {"String", "Int", "Float", "Bool"}

\* a conversion that emits an Int as a Float
ToKdlValueIntAsFloat(val) ==
    IF val.t = "String" THEN KString(val.s)
    ELSE IF val.t = "Int" THEN KFloat(F64FromInt(val.i))
    ELSE IF val.t = "Float" THEN KFloat(val.f)
    ELSE IF val.t = "Bool" THEN KBool(val.b)
    ELSE KNull

\* the KdlValue build_entry makes of a scalar or Nothing
ToKdlValue(val) ==
    IF val.t = "String" THEN KString(val.s)
    ELSE IF val.t = "Int" THEN KInteger(val.i)
    ELSE IF val.t = "Float" THEN KFloat(val.f)
    ELSE IF val.t = "Bool" THEN KBool(val.b)
    ELSE KNull

build_entry(entry) ==
    IF entry.t = "Record"
    THEN IF Len(entry.cols) # 1
         THEN Err("entry should be either a record with one key")
         ELSE LET key == entry.cols[1].k
                  val == entry.cols[1].v
              IN  IF val.t \in Scalars \cup {"Nothing"}
                  THEN Ok(Entry(Some(Ident(key, None)), ToKdlValue(val)))
                  ELSE Err("value not supported, expected string, int, float, bool or null")
    ELSE IF entry.t \in Scalars \cup {"Nothing"}
    THEN Ok(Entry(None, ToKdlValue(entry)))
    ELSE Panic("not yet implemented")

\* Result::unwrap
Unwrap(r) ==
    IF r.kind = "Err" THEN Panic("called Result::unwrap() on an Err value") ELSE r

\* the loop over the elements of a List in build_node, from element i on
RECURSIVE PushEntries(_, _, _)

\* a loop that puts each new entry in front
PushEntriesReversed(vals, i, entries) ==
    IF i > Len(vals) THEN Ok(entries)
    ELSE LET e == Unwrap(build_entry(vals[i]))
         IN  IF e.kind = "Ok" THEN PushEntries(vals, i + 1, <<e.ok>> \o entries)
             ELSE e

PushEntries(vals, i, entries) ==
    IF i > Len(vals) THEN Ok(entries)
    ELSE LET e == Unwrap(build_entry(vals[i]))
         IN  IF e.kind = "Ok" THEN PushEntries(vals, i + 1, Append(entries, e.ok))
             ELSE e

\* a build_node that leaves the node an empty children block
build_node_keeps_children(name, node) ==
    LET entries ==
            IF node.t = "Nothing" THEN Ok(<<>>)
            ELSE IF node.t \in Scalars THEN PushEntries(<<node>>, 1, <<>>)
            ELSE IF node.t = "List" THEN PushEntries(node.vals, 1, <<>>)
            ELSE Panic("not yet implemented")
    IN  IF entries.kind = "Ok"
        THEN Ok(Node(Ident(name, Some(name)), entries.ok, Some(<<>>)))
        ELSE entries

build_node(name, node) ==
    LET entries ==
            IF node.t = "Nothing" THEN Ok(<<>>)
            ELSE IF node.t \in Scalars THEN PushEntries(<<node>>, 1, <<>>)
            ELSE IF node.t = "List" THEN PushEntries(node.vals, 1, <<>>)
            ELSE Panic("not yet implemented")
    IN  IF entries.kind = "Ok"
        THEN Ok(Node(Ident(name, Some(name)), entries.ok, None))
        ELSE entries

\* the loop of build_document from column i on
RECURSIVE PushNodes(_, _, _)
PushNodes(record, i, nodes) ==
    IF i > Len(record) THEN Ok(nodes)
    ELSE LET node == build_node(record[i].k, record[i].v)
         IN  IF node.kind = "Ok" THEN PushNodes(record, i + 1, Append(nodes, node.ok))
             ELSE node

\* a build_document that makes an empty document of a value that is no record
build_document_lenient(doc) ==
    IF doc.t # "Record" THEN Ok(<<>>)
    ELSE PushNodes(doc.cols, 1, <<>>)

build_document(doc) ==
    IF doc.t # "Record" THEN Err("Expected a record")
    ELSE PushNodes(doc.cols, 1, <<>>)


(***************************************************************************)
(* lib.rs: the two commands.                                               *)
(***************************************************************************)
\* KdlDocument's Display, the text `to kdl` returns, is left uninterpreted
DocumentToString(doc) == [rendering |-> doc]

\* KDL::to: `?` passes build_document's error on; a panic passes through
KDL_to(input) ==
    LET doc == build_document(input)
    IN  IF doc.kind = "Ok" THEN Ok(DocumentToString(doc.ok)) ELSE doc

\* an EvaluatedCall of `from kdl`: its two switches
Call(v1, v1_fallback) == [v1 |-> v1, v1_fallback |-> v1_fallback]
Calls == {Call(a, b) : a, b \in BOOLEAN}

\* a KDL::from whose fallback mode tries the legacy parser first
KDL_from_legacy_first(call, input) ==
    IF input.t # "String"
    THEN [attempts |-> <<>>, result |-> Err("input is not a string: ")]
    ELSE IF call.v1
    THEN [attempts |-> <<"v1">>,
          result |-> IF input.v1.kind = "Ok" THEN Ok(parse_document(input.v1.ok))
                     ELSE Err("invalid KDL v1 format: " \o input.v1.msg)]
    ELSE IF call.v1_fallback
    THEN IF input.v1.kind = "Ok"
         THEN [attempts |-> <<"v1">>, result |-> Ok(parse_document(input.v1.ok))]
         ELSE [attempts |-> <<"v1", "v2">>,
               result |-> IF input.v2.kind = "Ok" THEN Ok(parse_document(input.v2.ok))
                          ELSE Err("invalid KDL format (tried v2 and v1): "
                                   \o input.v2.msg)]
    ELSE [attempts |-> <<"v2">>,
          result |-> IF input.v2.kind = "Ok" THEN Ok(parse_document(input.v2.ok))
                     ELSE Err("invalid KDL v2 format: " \o input.v2.msg)]

\* KDL::from.  A string input is held as what KdlDocument::parse_v1 (v1) and
\* str::parse::<KdlDocument> (v2) return for it.  The outcome records the
\* parsers called, in call order, next to the Result.
KDL_from(call, input) ==
    IF input.t # "String"
    THEN [attempts |-> <<>>, result |-> Err("input is not a string: ")]
    ELSE IF call.v1
    THEN [attempts |-> <<"v1">>,
          result |-> IF input.v1.kind = "Ok" THEN Ok(parse_document(input.v1.ok))
                     ELSE Err("invalid KDL v1 format: " \o input.v1.msg)]
    ELSE IF call.v1_fallback
    THEN IF input.v2.kind = "Ok"
         THEN [attempts |-> <<"v2">>, result |-> Ok(parse_document(input.v2.ok))]
         ELSE [attempts |-> <<"v2", "v1">>,
               result |-> IF input.v1.kind = "Ok" THEN Ok(parse_document(input.v1.ok))
                          ELSE Err("invalid KDL format (tried v2 and v1): "
                                   \o input.v1.msg)]
    ELSE [attempts |-> <<"v2">>,
          result |-> IF input.v2.kind = "Ok" THEN Ok(parse_document(input.v2.ok))
                     ELSE Err("invalid KDL v2 format: " \o input.v2.msg)]

(***************************************************************************)
(* The inputs the model enumerates.                                        *)
(***************************************************************************)
SeqsUpTo(S, n) == UNION {[1..m -> S] : m \in 0..n}

\* identifiers as the parser makes them: the repr is the text as written
IdA == Ident("a", Some("a"))
IdB == Ident("b", Some("b"))
IdC == Ident("c", Some("c"))
IdK == Ident("k", Some("k"))
IdQuotedA == Ident("a", Some("\"a\""))

KdlScalars ==
    {KString("x"), KInteger(1), KInteger(I64Max + 1), KFloat("1.5"), KFloat("inf"),
     KBool(TRUE), KNull}
Arg(v) == Entry(None, v)
Prop(id, v) == Entry(Some(id), v)
Args == {Arg(v) : v \in KdlScalars}
Entries == Args \cup {Prop(IdK, KInteger(1)), Prop(IdK, KNull)}

LeafDocs ==
    {<<>>,
     <<Node(IdC, <<Arg(KInteger(1))>>, None)>>,
     <<Node(IdC, <<Arg(KInteger(1))>>, None), Node(IdC, <<Arg(KString("x"))>>, None)>>,
     <<Node(IdC, <<Prop(IdK, KInteger(1))>>, None)>>}

\* children blocks nested at most d deep
RECURSIVE ChildDocs(_)
ChildDocs(d) ==
    IF d <= 1 THEN LeafDocs
    ELSE ChildDocs(d - 1) \cup
         {<<Node(IdC, es, Some(c))>> :
              es \in {<<>>, <<Arg(KInteger(1))>>}, c \in ChildDocs(d - 1)}

\* one node of every shape: 0..MaxEntries entries, with and without children
ShapeDocs ==
    {<<Node(id, es, ch)>> :
         id \in {IdA, IdQuotedA},
         es \in SeqsUpTo(Entries, MaxEntries),
         ch \in {None} \cup {Some(c) : c \in ChildDocs(MaxDepth)}}

\* up to MaxNodes nodes without children, names repeating
SimpleNodes ==
    {Node(id, es, None) :
         id \in {IdA, IdB, IdQuotedA},
         es \in {<<>>, <<Arg(KInteger(1))>>, <<Arg(KString("x"))>>}}
FlatDocs == SeqsUpTo(SimpleNodes, MaxNodes)

InputDocs == ShapeDocs \cup FlatDocs

\* values given to `to kdl`
ScalarVals ==
    {VString("x"), VInt(1), VInt(I64Min), VFloat("1.5"), VFloat("inf"), VBool(TRUE)}
Elements ==
    ScalarVals \cup
    {VNothing,
     VRecord(<<Col("k", VInt(1))>>),
     VRecord(<<>>),
     VRecord(<<Col("k", VInt(1)), Col("l", VInt(1))>>),
     VRecord(<<Col("k", VList(<<>>))>>),
     VList(<<VInt(1)>>)}
NodeVals == Elements \cup {VList(vals) : vals \in SeqsUpTo(Elements, MaxEntries)}
SmallVals == {VNothing, VInt(1), VList(<<VInt(1), VString("x")>>), VList(<<VString("x")>>)}
KeyNames == {"n" \o NatToString(i) : i \in 1..MaxNodes}
KeySeqs ==
    {ks \in SeqsUpTo(KeyNames, MaxNodes) :
         \A i, j \in 1..Len(ks) : i # j => ks[i] # ks[j]}

InputValues ==
    {VRecord(<<Col("a", v)>>) : v \in NodeVals} \cup
    UNION {{VRecord([i \in 1..Len(ks) |-> Col(ks[i], vs[i])]) :
                vs \in [1..Len(ks) -> SmallVals]} : ks \in KeySeqs} \cup
    ScalarVals \cup {VNothing, VList(<<VInt(1)>>)}

\* string inputs of `from kdl` by what the two parsers make of them, and a
\* non-string input
ParsedDocs ==
    {<<Node(IdA, <<Arg(KInteger(1))>>, None)>>,
     <<Node(IdA, <<Prop(Ident("size", Some("size")), KInteger(1))>>, None)>>,
     <<Node(IdA, <<Arg(KBool(TRUE))>>, None)>>,
     <<Node(IdA, <<Arg(KString("true"))>>, None)>>}
Texts ==
    {[t |-> "String", v2 |-> r2, v1 |-> r1] :
         r2 \in {Ok(d) : d \in ParsedDocs} \cup {Err("v2 parse error")},
         r1 \in {Ok(d) : d \in ParsedDocs} \cup {Err("v1 parse error")}}
    \cup {VInt(1)}

(***************************************************************************)
(* The state machine.                                                      *)
(***************************************************************************)
Unset == [unset |-> TRUE]
NotRun == [run |-> FALSE]

\* a document to decode, or a value to encode
Init ==
    /\ pc = "start"
    /\ built = Unset /\ output = Unset /\ redecoded = Unset
    /\ text = Unset /\ runs = Unset
    /\ \/ cmd = "decode" /\ document \in InputDocs /\ value = Unset
       \/ cmd = "encode" /\ document = Unset /\ value \in InputValues

\* from::parse_document on the input document
ParseDocument ==
    /\ cmd = "decode" /\ pc = "start"
    /\ value' = parse_document(document)
    /\ pc' = "decoded"
    /\ UNCHANGED <<cmd, document, built, output, redecoded, text, runs>>

\* KDL::to on the value; a panic ends the plugin process
KDLTo ==
    /\ pc = IF cmd = "decode" THEN "decoded" ELSE "start"
    /\ built' = build_document(value)
    /\ output' = KDL_to(value)
    /\ pc' = IF built'.kind = "Panic" THEN "crashed" ELSE "built"
    /\ UNCHANGED <<cmd, document, value, redecoded, text, runs>>

\* from::parse_document on the document build_document returned
ParseBuilt ==
    /\ pc = "built" /\ built.kind = "Ok"
    /\ redecoded' = parse_document(built.ok)
    /\ pc' = "redecoded"
    /\ UNCHANGED <<cmd, document, value, built, output, text, runs>>

Next == ParseDocument \/ KDLTo \/ ParseBuilt

Spec == Init /\ [][Next]_vars

\* `from kdl` on one input, once under each combination of the switches
InitFrom ==
    /\ cmd = "from kdl" /\ pc = "start"
    /\ document = Unset /\ value = Unset
    /\ built = Unset /\ output = Unset /\ redecoded = Unset
    /\ text \in Texts
    /\ runs = [c \in Calls |-> NotRun]

KDLFrom(call) ==
    /\ cmd = "from kdl" /\ runs[call] = NotRun
    /\ runs' = [runs EXCEPT ![call] = KDL_from(call, text)]
    /\ UNCHANGED <<cmd, pc, document, value, built, output, redecoded, text>>

NextFrom == \E call \in Calls : KDLFrom(call)

SpecFrom == InitFrom /\ [][NextFrom]_vars


(***************************************************************************)
(* What the claims speak of, stated without the code's own operators.      *)
(***************************************************************************)
\* the key a node is stored under: its name as node.name().to_string() gives it
NodeKey(node) == IdentToString(node.name)

\* the distinct keys of a document, each at the place of its first node
RECURSIVE FirstKeysFrom(_, _, _)
FirstKeysFrom(doc, i, acc) ==
    IF i > Len(doc) THEN acc
    ELSE FirstKeysFrom(doc, i + 1,
             IF \E j \in 1..Len(acc) : acc[j] = NodeKey(doc[i]) THEN acc
             ELSE Append(acc, NodeKey(doc[i])))
FirstKeys(doc) == FirstKeysFrom(doc, 1, <<>>)

\* the last node of a document stored under a key
LastNode(doc, key) ==
    doc[CHOOSE i \in 1..Len(doc) :
            /\ NodeKey(doc[i]) = key
            /\ \A j \in (i + 1)..Len(doc) : NodeKey(doc[j]) # key]

DistinctKeys(doc) == \A i, j \in 1..Len(doc) : i # j => NodeKey(doc[i]) # NodeKey(doc[j])

\* the table of C1, applied to a node and down through its children
RECURSIVE NodeDecodesTo(_, _), DocDecodesTo(_, _)
NodeDecodesTo(node, v) ==
    LET n == Len(node.entries)
        es == [i \in 1..n |-> parse_entry(node.entries[i])]
        collapsed == IF n = 1 THEN es[1] ELSE VList(es)
    IN  IF node.children = None
        THEN /\ n = 0 => v = VNothing
             /\ n = 1 => v = es[1] /\ v # VList(es)
             /\ n >= 2 => v = VList(es)
        ELSE /\ n = 0 => DocDecodesTo(node.children[1], v)
             /\ n >= 1 =>
                    /\ v.t = "Record"
                    /\ Keys(v.cols) = <<"entries", "children">>
                    /\ v.cols[1].v = collapsed
                    /\ DocDecodesTo(node.children[1], v.cols[2].v)
DocDecodesTo(doc, v) ==
    /\ v.t = "Record"
    /\ Keys(v.cols) = FirstKeys(doc)
    /\ \A c \in 1..Len(v.cols) : NodeDecodesTo(LastNode(doc, v.cols[c].k), v.cols[c].v)

Decoded == cmd = "decode" /\ pc # "start"
Encoded == pc \in {"built", "crashed", "redecoded"}

\* C1: every node decodes by the table on (number of entries, has children):
\* no children: 0 -> Nothing, 1 -> the entry unwrapped, >= 2 -> the List;
\* children: 0 -> the children Record itself, >= 1 -> {entries, children}
\* with "entries" the single entry or the List of them
C1_NodeShape ==
    Decoded =>
        /\ value.t = "Record"
        /\ \A c \in 1..Len(value.cols) :
               NodeDecodesTo(LastNode(document, value.cols[c].k), value.cols[c].v)

\* a node with two entries and children has been decoded to the wrapper
C1_Witness ==
    /\ Decoded /\ Len(document) = 1
    /\ Len(document[1].entries) = 2 /\ IsSome(document[1].children)
    /\ Keys(value.cols[1].v.cols) = <<"entries", "children">>
    /\ value.cols[1].v.cols[1].v.t = "List"

\* C2: build_document succeeds on whatever parse_document produced, and
\* decoding its document gives the same Record again
C2_EncodeInvertsDecode ==
    (cmd = "decode" /\ Encoded) =>
        /\ built.kind = "Ok"
        /\ pc = "redecoded" => redecoded = value

IsScalar(v) == v.t \in Scalars
IsFinite(v) == v.t = "Float" => v.f \in FiniteFloats

\* a Record of scalars and Lists of scalars
ScalarRecord(v) ==
    /\ v.t = "Record"
    /\ \A c \in 1..Len(v.cols) :
           \/ IsScalar(v.cols[c].v)
           \/ /\ v.cols[c].v.t = "List"
              /\ \A e \in 1..Len(v.cols[c].v.vals) : IsScalar(v.cols[c].v.vals[e])

\* the same, with every float finite and every List of two elements or more
RoundTripRecord(v) ==
    /\ ScalarRecord(v)
    /\ \A c \in 1..Len(v.cols) :
           /\ IsFinite(v.cols[c].v)
           /\ v.cols[c].v.t = "List" =>
                  /\ Len(v.cols[c].v.vals) >= 2
                  /\ \A e \in 1..Len(v.cols[c].v.vals) : IsFinite(v.cols[c].v.vals[e])

\* C3 as stated: a Record of scalars and Lists of scalars encodes and decodes
\* back to itself
C3_RoundTripAsStated ==
    (cmd = "encode" /\ Encoded /\ ScalarRecord(value)) =>
        /\ built.kind = "Ok"
        /\ pc = "redecoded" => redecoded = value

\* C3 amended: a Record of Strings, Ints, finite Floats, Bools and Lists of at
\* least two of them encodes and decodes back to itself
C3_RoundTrip ==
    (cmd = "encode" /\ Encoded /\ RoundTripRecord(value)) =>
        /\ built.kind = "Ok"
        /\ pc = "redecoded" => redecoded = value

\* a Record holding a List with an Int in it has made the round trip
C3_Witness ==
    /\ cmd = "encode" /\ pc = "redecoded" /\ RoundTripRecord(value)
    /\ \E c \in 1..Len(value.cols) :
           /\ value.cols[c].v.t = "List"
           /\ \E e \in 1..Len(value.cols[c].v.vals) : value.cols[c].v.vals[e].t = "Int"

\* C4: encoding returns a document or an error for every input value; it
\* never panics
C4_EncodeNeverPanics ==
    (cmd = "encode" /\ Encoded) => (pc # "crashed" /\ built.kind \in {"Ok", "Err"})

\* documents of arguments only: no property, no children block
ArgsOnly(doc) ==
    \A i \in 1..Len(doc) :
        /\ doc[i].children = None
        /\ \A e \in 1..Len(doc[i].entries) : doc[i].entries[e].name = None

\* C5 as stated: a document of arguments only decodes to a Record with one
\* entry per node, keyed by the node's name
C5_EntryPerNodeAsStated ==
    (Decoded /\ ArgsOnly(document)) =>
        /\ value.t = "Record"
        /\ Len(value.cols) = Len(document)
        /\ \A i \in 1..Len(document) : value.cols[i].k = NodeKey(document[i])

\* C5 amended: a document of arguments only whose node names are pairwise
\* distinct decodes to a Record with one entry per node, keyed by the
\* node's name, in node order
C5_EntryPerNode ==
    (Decoded /\ ArgsOnly(document) /\ DistinctKeys(document)) =>
        /\ value.t = "Record"
        /\ Len(value.cols) = Len(document)
        /\ \A i \in 1..Len(document) : value.cols[i].k = NodeKey(document[i])

\* three nodes of distinct names, arguments only, have been decoded
C5_Witness ==
    /\ Decoded /\ ArgsOnly(document) /\ DistinctKeys(document)
    /\ Len(document) = 3 /\ Len(value.cols) = 3

\* C6: nodes sharing a name leave one entry, at the place of the first of
\* them, holding the conversion of the last of them
C6_LastWriteWins ==
    Decoded =>
        /\ value.t = "Record"
        /\ Keys(value.cols) = FirstKeys(document)
        /\ \A c \in 1..Len(value.cols) :
               value.cols[c].v = parse_node(LastNode(document, value.cols[c].k))

\* a name used again after another name, with a different content
C6_Witness ==
    /\ Decoded /\ Len(document) = 3 /\ Len(value.cols) = 2
    /\ NodeKey(document[1]) = NodeKey(document[3])
    /\ NodeKey(document[1]) # NodeKey(document[2])
    /\ parse_node(document[1]) # parse_node(document[3])
    /\ value.cols[1].k = NodeKey(document[1])

\* C7: a top-level value that is no Record fails with "Expected a record"
\* and no document; a Record of scalars encodes
C7_ExpectedARecord ==
    (cmd = "encode" /\ Encoded) =>
        /\ value.t # "Record" =>
               /\ built = Err("Expected a record")
               /\ output = Err("Expected a record")
               /\ pc = "built"
        /\ (value.t = "Record" /\ \A c \in 1..Len(value.cols) : IsScalar(value.cols[c].v))
               => (built.kind = "Ok" /\ output.kind = "Ok")

\* a bare Int has been refused
C7_Witness ==
    /\ cmd = "encode" /\ pc = "built" /\ value = VInt(1) /\ built.kind = "Err"

Default == Call(FALSE, FALSE)
StrictV1 == Call(TRUE, FALSE)
Fallback == Call(FALSE, TRUE)
Ran(call) == runs[call] # NotRun
Failed(r) == r.kind = "Err"
Count(seq, x) == Cardinality({i \in 1..Len(seq) : seq[i] = x})
LegacyOnly == text.t = "String" /\ Failed(text.v2) /\ ~Failed(text.v1)

\* C8: the default mode calls the v2 parser only and fails when it fails;
\* --v1 calls the v1 parser only; --v1-fallback calls v2 first and v1 once,
\* only after v2 failed, and fails only when both failed; so on text valid
\* under v1 only the default fails and the fallback returns what --v1 does
C8_DialectOrder ==
    (cmd = "from kdl" /\ text.t = "String") =>
        /\ Ran(Default) =>
               /\ runs[Default].attempts = <<"v2">>
               /\ Failed(runs[Default].result) <=> Failed(text.v2)
        /\ \A call \in Calls : (call.v1 /\ Ran(call)) =>
               /\ runs[call].attempts = <<"v1">>
               /\ Failed(runs[call].result) <=> Failed(text.v1)
        /\ Ran(Fallback) =>
               /\ runs[Fallback].attempts[1] = "v2"
               /\ Count(runs[Fallback].attempts, "v2") = 1
               /\ Count(runs[Fallback].attempts, "v1") = IF Failed(text.v2) THEN 1 ELSE 0
               /\ Failed(runs[Fallback].result) <=> (Failed(text.v2) /\ Failed(text.v1))
        /\ LegacyOnly =>
               /\ Ran(Default) => Failed(runs[Default].result)
               /\ (Ran(Fallback) /\ Ran(StrictV1)) =>
                      /\ runs[Fallback].result = runs[StrictV1].result
                      /\ runs[Fallback].result.kind = "Ok"

\* text valid under v1 only has been run in the three modes
C8_Witness ==
    /\ cmd = "from kdl" /\ LegacyOnly
    /\ Ran(Default) /\ Ran(StrictV1) /\ Ran(Fallback)
    /\ runs[Fallback].attempts = <<"v2", "v1">>

\* the KdlValue holding a scalar
HoldsScalar(k, v) ==
    \/ v.t = "String" /\ k = KString(v.s)
    \/ v.t = "Int" /\ k = KInteger(v.i)
    \/ v.t = "Float" /\ k = KFloat(v.f)
    \/ v.t = "Bool" /\ k = KBool(v.b)
    \/ v.t = "Nothing" /\ k = KNull

\* the entry an element of a List is encoded as
EntryOf(entry, v) ==
    IF v.t = "Record"
    THEN /\ Len(v.cols) = 1
         /\ IsSome(entry.name) /\ entry.name[1].value = v.cols[1].k
         /\ HoldsScalar(entry.value, v.cols[1].v)
    ELSE entry.name = None /\ HoldsScalar(entry.value, v)

\* C9: an accepted Record gives one node per key, in order, named by the
\* key, without children; Nothing gives no entry, a scalar one argument, a
\* List one entry per element in order (an argument, or a property for a
\* single-key Record)
C9_NodePerKey ==
    (Encoded /\ built.kind = "Ok") =>
        /\ value.t = "Record"
        /\ Len(built.ok) = Len(value.cols)
        /\ \A i \in 1..Len(value.cols) :
               LET node == built.ok[i]
                   v == value.cols[i].v
               IN  /\ node.name.value = value.cols[i].k
                   /\ NodeKey(node) = value.cols[i].k
                   /\ node.children = None
                   /\ v.t = "Nothing" => node.entries = <<>>
                   /\ IsScalar(v) =>
                          /\ Len(node.entries) = 1
                          /\ node.entries[1].name = None
                          /\ HoldsScalar(node.entries[1].value, v)
                   /\ v.t \in Scalars \cup {"Nothing", "List"}
                   /\ v.t = "List" =>
                          /\ Len(node.entries) = Len(v.vals)
                          /\ \A e \in 1..Len(v.vals) : EntryOf(node.entries[e], v.vals[e])

\* a List of an argument and a property has been encoded
C9_Witness ==
    /\ cmd = "encode" /\ pc = "built" /\ built.kind = "Ok"
    /\ Len(built.ok) = 1 /\ Len(built.ok[1].entries) = 2
    /\ built.ok[1].entries[1].name = None
    /\ IsSome(built.ok[1].entries[2].name)

\* what an encoded entry decodes to: Nothing, a scalar or a single-key Record
IsItem(v) ==
    \/ v.t \in Scalars \cup {"Nothing"}
    \/ v.t = "Record" /\ Len(v.cols) = 1

\* C10: when build_document succeeds, decoding its document gives the keys
\* of the input Record in their order, and each value is Nothing, a scalar,
\* a single-key Record or a List of at least two of them
C10_KeysSurvive ==
    pc = "redecoded" =>
        /\ redecoded.t = "Record"
        /\ Keys(redecoded.cols) = Keys(value.cols)
        /\ \A c \in 1..Len(redecoded.cols) :
               LET v == redecoded.cols[c].v
               IN  \/ IsItem(v)
                   \/ /\ v.t = "List" /\ Len(v.vals) >= 2
                      /\ \A e \in 1..Len(v.vals) : IsItem(v.vals[e])

\* a Record of several keys whose values changed on the way has come back
C10_Witness ==
    /\ cmd = "encode" /\ pc = "redecoded"
    /\ Len(value.cols) >= 2 /\ redecoded # value
    /\ Keys(redecoded.cols) = Keys(value.cols)


====
